---------------------------- MODULE Spec2Model ----------------------------
(***************************************************************************)
(* Model of x_make_gitignore_sync_x (src/sync.py): the template loader,    *)
(* the repository discoverer, the per-repository synchroniser, the result  *)
(* buckets and main.                                                       *)
(*                                                                         *)
(* A file's content is a sequence of byte tokens ("CR" and "LF" are the    *)
(* two line-ending bytes); a text (Python str) is a sequence of the same   *)
(* tokens.  Path.read_text and Path.write_text open the file in text mode  *)
(* with newline=None, so reading translates line endings and writing       *)
(* translates "LF" to os.linesep.                                          *)
(*                                                                         *)
(* A name is a sequence of characters, a path the sequence of the names    *)
(* below the workspace root; the root is the empty path.  The workspace    *)
(* holds plain directories and files (no links), and no other process      *)
(* changes it during a run.                                                *)
(***************************************************************************)
EXTENDS Naturals, Sequences, FiniteSets, TLC

VARIABLES
    os_linesep,     \* os.linesep of the platform, as byte tokens
    template_file,  \* the file at --template: Missing, Unreadable or its bytes
    fs,             \* the workspace: path -> [kind, git, gitignore]
    fs0,            \* the workspace as it was when the current run started
    writes,         \* path -> number of write_text calls on path/.gitignore in this run
    dry_run,        \* args.dry_run of the current run
    pc,             \* position in main: "start", "loaded", "syncing", "done", "raised"
    error,          \* the exception that left main, or "none"
    template,       \* main's local `template` (a text), NoText before it is loaded
    repos,          \* main's local `repos`
    idx,            \* 1-based position of _sync_all's for loop in repos
    created,        \* _sync_all's local lists
    updated,
    unchanged,
    result,         \* main's local `result`: NoResult until _sync_all returns
    logged,         \* TRUE once result.log() has run
    prev_synced     \* TRUE iff the previous run was a completed non-dry run

vars == << os_linesep, template_file, fs, fs0, writes, dry_run, pc, error,
           template, repos, idx, created, updated, unchanged, result, logged,
           prev_synced >>

\* Number of candidate visible child directory names below the root.
NumVisible == 2

\* What stands where bytes, a text or a SyncResult would: no byte is one of these tokens.
Missing == <<"ENOENT">>
Unreadable == <<"EACCES">>
NoText == <<"unset">>
NoResult == [returned |-> FALSE]

---------------------------------------------------------------------------
(* Texts and bytes *)

LF == <<"LF">>
CRLF == <<"CR", "LF">>

\* Contents of the .gitignore files present in the workspace.
Contents == { <<"a", "CR", "LF">>, <<"b", "LF">> }
\* Contents of the file at --template.
TemplateContents == Contents \cup { <<"a", "LF">> }

\* Path.read_text(encoding="utf-8"): universal newlines, "\r\n" and "\r" become "\n".
RECURSIVE ReadText(_)
ReadText(bytes) ==
    IF bytes = <<>> THEN <<>>
    ELSE IF Head(bytes) = "CR"
         THEN IF Len(bytes) >= 2 /\ bytes[2] = "LF"
              THEN LF \o ReadText(SubSeq(bytes, 3, Len(bytes)))
              ELSE LF \o ReadText(Tail(bytes))
         ELSE <<Head(bytes)>> \o ReadText(Tail(bytes))

\* A mutant: the text is written as a line, with a line ending after it.
WriteTextTrailing(text, linesep) == text \o linesep

\* Path.write_text(text, encoding="utf-8"): "\n" is written as os.linesep.
RECURSIVE WriteText(_, _)
WriteText(text, linesep) ==
    IF text = <<>> THEN <<>>
    ELSE (IF Head(text) = "LF" THEN linesep ELSE <<Head(text)>>)
         \o WriteText(Tail(text), linesep)

---------------------------------------------------------------------------
(* Names and paths *)

\* Code point order of the characters used in names.
Rank(c) == CASE c = "." -> 46 [] c = "a" -> 97 [] c = "b" -> 98
             [] c = "h" -> 104 [] c = "n" -> 110 [] OTHER -> 0

\* str.__lt__
RECURSIVE StrLess(_, _)
StrLess(s, t) ==
    IF t = <<>> THEN FALSE
    ELSE IF s = <<>> THEN TRUE
    ELSE IF Head(s) = Head(t) THEN StrLess(Tail(s), Tail(t))
    ELSE Rank(Head(s)) < Rank(Head(t))

\* Path.__lt__: the parts compared as lists of str.
RECURSIVE PathLess(_, _)
PathLess(p, q) ==
    IF q = <<>> THEN FALSE
    ELSE IF p = <<>> THEN TRUE
    ELSE IF Head(p) = Head(q) THEN PathLess(Tail(p), Tail(q))
    ELSE StrLess(Head(p), Head(q))

Root == <<>>

\* The i-th candidate visible name: "b", "a", "aa", ...
VisibleName(i) == IF i = 1 THEN <<"b">> ELSE [j \in 1..(i - 1) |-> "a"]
VisibleNames == { VisibleName(i) : i \in 1..NumVisible }
HiddenName == <<".", "h">>
NestedName == <<"n">>
ChildNames == VisibleNames \cup {HiddenName}
Children == { <<n>> : n \in ChildNames }
\* A directory two levels below the root.
Nested == << VisibleName(1), NestedName >>
Paths == {Root} \cup Children \cup {Nested}

Range(s) == { s[i] : i \in 1..Len(s) }

---------------------------------------------------------------------------
(* The workspace *)

Absent == [kind |-> "absent", git |-> "none", gitignore |-> Missing]
PlainFile == [kind |-> "file", git |-> "none", gitignore |-> Missing]
\* A directory is described by its .git entry ("none", a file or a directory) and
\* its .gitignore.
NonRepos == [kind : {"dir"}, git : {"none"}, gitignore : {<<"b", "LF">>}]
GitDirRepos == [kind : {"dir"}, git : {"dir"}, gitignore : {Missing} \cup Contents]
\* A worktree or submodule checkout: .git is a file.
GitFileRepos == [kind : {"dir"}, git : {"file"}, gitignore : {Missing}]
DirEntries == NonRepos \cup GitDirRepos \cup GitFileRepos

EntriesAt(p) ==
    IF p = Root THEN {Absent} \cup DirEntries
    ELSE IF p = <<HiddenName>> \/ p = Nested THEN {Absent} \cup GitFileRepos
    ELSE {Absent, PlainFile} \cup DirEntries

Parent(p) == SubSeq(p, 1, Len(p) - 1)

\* An entry exists only inside a directory.
WellFormed(f) ==
    \A p \in Paths \ {Root} : f[p].kind # "absent" => f[Parent(p)].kind = "dir"

RECURSIVE Trees(_)
Trees(S) ==
    IF S = {} THEN { [p \in {} |-> Absent] }
    ELSE LET p == CHOOSE x \in S : TRUE
         IN  { (p :> e) @@ f : e \in EntriesAt(p), f \in Trees(S \ {p}) }

Workspaces == { f \in Trees(Paths) : WellFormed(f) }

\* (dir / ".git").exists()
GitExists(e) == e.kind = "dir" /\ e.git # "none"

\* The entries root.iterdir() yields, as a set.
Listing(f) == { c \in Children : f[c].kind # "absent" }

\* The orders in which iterdir() may yield them.
Orders(S) ==
    { s \in [1..Cardinality(S) -> S] :
        \A i, j \in 1..Cardinality(S) : i # j => s[i] # s[j] }

---------------------------------------------------------------------------
(* _discover_repositories *)

\* sorted(): insertion of x into an ascending list.
RECURSIVE Insert(_, _)
Insert(x, s) ==
    IF s = <<>> THEN <<x>>
    ELSE IF PathLess(x, Head(s)) THEN <<x>> \o s
    ELSE <<Head(s)>> \o Insert(x, Tail(s))

RECURSIVE Sorted(_)
Sorted(s) == IF s = <<>> THEN <<>> ELSE Insert(Head(s), Sorted(Tail(s)))

\* A mutant: the test of the name is missing.
AcceptsHidden(f, candidate) ==
    /\ f[candidate].kind = "dir"
    /\ GitExists(f[candidate])

\* A mutant: the test of candidate/.git is missing.
AcceptsAnyDir(f, candidate) ==
    /\ f[candidate].kind = "dir"
    /\ Head(candidate[Len(candidate)]) # "."

\* The tests of the loop body on one candidate.
Accepts(f, candidate) ==
    /\ f[candidate].kind = "dir"
    /\ Head(candidate[Len(candidate)]) # "."
    /\ GitExists(f[candidate])

RECURSIVE Scan(_, _)
Scan(f, order) ==
    IF order = <<>> THEN <<>>
    ELSE (IF Accepts(f, Head(order)) THEN <<Head(order)>> ELSE <<>>)
         \o Scan(f, Tail(order))

DiscoverRepositories(f, order) ==
    Sorted((IF GitExists(f[Root]) THEN <<Root>> ELSE <<>>) \o Scan(f, order))

---------------------------------------------------------------------------
(* _load_template *)

\* The exceptions that leave main, by where they are raised.
TemplateNotFound == "FileNotFoundError(template file not found: <path>)"
TemplateOSError == "OSError from template read_text"
RootOSError == "OSError from root.iterdir"
WriteOSError == "OSError from target.write_text"

\* A mutant: a missing template is read as an empty one.
LoadTemplateDefault(file) ==
    IF file = Missing \/ file = Unreadable THEN [error |-> "none", text |-> <<>>]
    ELSE [error |-> "none", text |-> ReadText(file)]

LoadTemplate(file) ==
    IF file = Missing THEN [error |-> TemplateNotFound, text |-> NoText]
    ELSE IF file = Unreadable THEN [error |-> TemplateOSError, text |-> NoText]
    ELSE [error |-> "none", text |-> ReadText(file)]

---------------------------------------------------------------------------
(* _sync_repo *)

\* A mutant: a missing .gitignore is reported and never written.
SyncRepoNoCreateWrite(current, tmpl, dry) ==
    IF current = Missing THEN [outcome |-> "created", write |-> FALSE]
    ELSE IF ReadText(current) = tmpl THEN [outcome |-> "None", write |-> FALSE]
    ELSE [outcome |-> "updated", write |-> ~dry]

\* A mutant: the file's bytes are compared with the template.
SyncRepoRawCompare(current, tmpl, dry) ==
    IF current = Missing THEN [outcome |-> "created", write |-> ~dry]
    ELSE IF current = tmpl THEN [outcome |-> "None", write |-> FALSE]
    ELSE [outcome |-> "updated", write |-> ~dry]

\* A mutant: a matching file is rewritten.
SyncRepoAlwaysWrite(current, tmpl, dry) ==
    IF current = Missing THEN [outcome |-> "created", write |-> ~dry]
    ELSE IF ReadText(current) = tmpl THEN [outcome |-> "None", write |-> ~dry]
    ELSE [outcome |-> "updated", write |-> ~dry]

\* A mutant: dry_run is not consulted.
SyncRepoIgnoreDry(current, tmpl, dry) ==
    IF current = Missing THEN [outcome |-> "created", write |-> TRUE]
    ELSE IF ReadText(current) = tmpl THEN [outcome |-> "None", write |-> FALSE]
    ELSE [outcome |-> "updated", write |-> TRUE]

\* The outcome it returns, and whether it calls target.write_text.
SyncRepo(current, tmpl, dry) ==
    IF current = Missing
    THEN IF dry THEN [outcome |-> "created", write |-> FALSE]
         ELSE [outcome |-> "created", write |-> TRUE]
    ELSE IF ReadText(current) = tmpl
    THEN [outcome |-> "None", write |-> FALSE]
    ELSE IF dry THEN [outcome |-> "updated", write |-> FALSE]
    ELSE [outcome |-> "updated", write |-> TRUE]

---------------------------------------------------------------------------
(* _sync_all *)

\* A mutant: the last branch tests for an "unchanged" outcome, which None is not.
CollectDrop(lists, repo, outcome) ==
    IF outcome = "created"
    THEN [lists EXCEPT !.created = Append(@, repo)]
    ELSE IF outcome = "updated"
    THEN [lists EXCEPT !.updated = Append(@, repo)]
    ELSE IF outcome = "unchanged"
    THEN [lists EXCEPT !.unchanged = Append(@, repo)]
    ELSE lists

\* The if / elif / else of the loop body on the three lists.
Collect(lists, repo, outcome) ==
    IF outcome = "created"
    THEN [lists EXCEPT !.created = Append(@, repo)]
    ELSE IF outcome = "updated"
    THEN [lists EXCEPT !.updated = Append(@, repo)]
    ELSE [lists EXCEPT !.unchanged = Append(@, repo)]

\* A mutant: the exception is recorded and the loop goes on.
PropagateIsolated(exc) == [pc |-> "syncing", error |-> exc]

\* An exception raised in the loop is caught nowhere: it leaves _sync_all and main.
Propagate(exc) == [pc |-> "raised", error |-> exc]

---------------------------------------------------------------------------
(* main *)

NoWrites == [p \in Paths |-> 0]

Init ==
    /\ os_linesep \in {LF, CRLF}
    /\ template_file \in {Missing, Unreadable} \cup TemplateContents
    /\ fs \in Workspaces
    /\ fs0 = fs
    /\ writes = NoWrites
    /\ dry_run \in BOOLEAN
    /\ pc = "start"
    /\ error = "none"
    /\ template = NoText
    /\ repos = <<>>
    /\ idx = 1
    /\ created = <<>>
    /\ updated = <<>>
    /\ unchanged = <<>>
    /\ result = NoResult
    /\ logged = FALSE
    /\ prev_synced = FALSE

\* template = _load_template(template_path)
Load ==
    /\ pc = "start"
    /\ LET r == LoadTemplate(template_file)
       IN  IF r.error = "none"
           THEN /\ template' = r.text
                /\ pc' = "loaded"
                /\ error' = "none"
           ELSE /\ template' = template
                /\ pc' = Propagate(r.error).pc
                /\ error' = Propagate(r.error).error
    /\ UNCHANGED << os_linesep, template_file, fs, fs0, writes, dry_run, repos, idx,
                    created, updated, unchanged, result, logged, prev_synced >>

\* repos = _discover_repositories(root); _sync_all starts with three empty lists
Discover ==
    /\ pc = "loaded"
    /\ IF fs[Root].kind # "dir"
       THEN /\ pc' = Propagate(RootOSError).pc
            /\ error' = Propagate(RootOSError).error
            /\ UNCHANGED repos
       ELSE /\ \E order \in Orders(Listing(fs)) :
                  repos' = DiscoverRepositories(fs, order)
            /\ pc' = "syncing"
            /\ error' = "none"
    /\ idx' = 1
    /\ created' = <<>>
    /\ updated' = <<>>
    /\ unchanged' = <<>>
    /\ UNCHANGED << os_linesep, template_file, fs, fs0, writes, dry_run, template,
                    result, logged, prev_synced >>

\* One iteration of the for loop whose write, if any, succeeds.
SyncNext ==
    /\ pc = "syncing"
    /\ idx <= Len(repos)
    /\ LET repo == repos[idx]
           r == SyncRepo(fs[repo].gitignore, template, dry_run)
           lists == Collect([created |-> created, updated |-> updated,
                             unchanged |-> unchanged], repo, r.outcome)
       IN  /\ IF r.write
              THEN /\ fs' = [fs EXCEPT ![repo].gitignore = WriteText(template, os_linesep)]
                   /\ writes' = [writes EXCEPT ![repo] = @ + 1]
              ELSE UNCHANGED << fs, writes >>
           /\ created' = lists.created
           /\ updated' = lists.updated
           /\ unchanged' = lists.unchanged
    /\ idx' = idx + 1
    /\ UNCHANGED << os_linesep, template_file, fs0, dry_run, pc, error, template, repos,
                    result, logged, prev_synced >>

\* One iteration whose target.write_text raises (permission denied, disk full):
\* the file is left as it was or left truncated.
SyncFail ==
    /\ pc = "syncing"
    /\ idx <= Len(repos)
    /\ LET repo == repos[idx]
           r == SyncRepo(fs[repo].gitignore, template, dry_run)
       IN  /\ r.write
           /\ \/ UNCHANGED fs
              \/ fs' = [fs EXCEPT ![repo].gitignore = <<>>]
           /\ writes' = [writes EXCEPT ![repo] = @ + 1]
    /\ pc' = Propagate(WriteOSError).pc
    /\ error' = Propagate(WriteOSError).error
    /\ UNCHANGED << os_linesep, template_file, fs0, dry_run, template, repos, idx,
                    created, updated, unchanged, result, logged, prev_synced >>

\* _sync_all returns the SyncResult; main logs it unless --quiet and returns 0.
Finish ==
    /\ pc = "syncing"
    /\ idx > Len(repos)
    /\ result' = [created |-> created, updated |-> updated, unchanged |-> unchanged]
    /\ \E quiet \in BOOLEAN : logged' = ~quiet
    /\ pc' = "done"
    /\ UNCHANGED << os_linesep, template_file, fs, fs0, writes, dry_run, error, template,
                    repos, idx, created, updated, unchanged, prev_synced >>

\* After a completed run, main is invoked again on the same root with the same
\* template file.
Rerun ==
    /\ pc = "done"
    /\ prev_synced' = ~dry_run
    /\ fs0' = fs
    /\ writes' = NoWrites
    /\ dry_run' \in BOOLEAN
    /\ pc' = "start"
    /\ error' = "none"
    /\ template' = NoText
    /\ repos' = <<>>
    /\ idx' = 1
    /\ created' = <<>>
    /\ updated' = <<>>
    /\ unchanged' = <<>>
    /\ result' = NoResult
    /\ logged' = FALSE
    /\ UNCHANGED << os_linesep, template_file, fs >>

Next == Load \/ Discover \/ SyncNext \/ SyncFail \/ Finish \/ Rerun

Spec == Init /\ [][Next]_vars

---------------------------------------------------------------------------
(* Properties *)

\* The repositories whose loop iteration has completed in the current run.
Completed == { repos[j] : j \in 1..(idx - 1) }
\* The repositories the loop has not reached.
Ahead == { repos[j] : j \in (idx + 1)..Len(repos) }

\* The file's content is the template, as the tests compare them:
\* target.read_text(encoding="utf-8") == template.
HoldsTemplate(e) ==
    /\ e.gitignore # Missing
    /\ ReadText(e.gitignore) = template

\* The file is what write_text(template) leaves: it holds the template, and
\* where os.linesep is "\n" its bytes are the template's.
WrittenTemplate(e) ==
    /\ HoldsTemplate(e)
    /\ os_linesep = LF => e.gitignore = template

\* Number of times x occurs in the list s.
Count(x, s) == Cardinality({ i \in 1..Len(s) : s[i] = x })

\* C1: in a non-dry run, every repository that had no .gitignore and whose
\* iteration has completed is in created, and its .gitignore now exists and
\* holds the template.
C1_CreatedHoldsTemplate ==
    ~dry_run =>
        \A r \in Completed :
            fs0[r].gitignore = Missing =>
                /\ Count(r, created) = 1
                /\ WrittenTemplate(fs[r])

C1_Witness ==
    /\ ~dry_run
    /\ pc = "done"
    /\ \E r \in Completed : fs0[r].gitignore = Missing /\ fs[r].gitignore # Missing

\* C2 as stated: in a non-dry run, every repository whose existing .gitignore
\* differs byte for byte from the template (from the loaded text and from the
\* template file) is in updated and afterwards holds the template.
C2_ByteDifferenceUpdated ==
    ~dry_run =>
        \A r \in Completed :
            ( /\ fs0[r].gitignore # Missing
              /\ fs0[r].gitignore # template
              /\ fs0[r].gitignore # template_file ) =>
                /\ Count(r, updated) = 1
                /\ HoldsTemplate(fs[r])

\* C2 amended: in a non-dry run, every repository whose existing .gitignore,
\* read with line endings translated to "\n", differs from the template is in
\* updated and afterwards holds the template; one that differs from the
\* template in its line endings only is in unchanged and is left as it was.
C2_TextDifferenceUpdated ==
    ~dry_run =>
        \A r \in Completed :
            fs0[r].gitignore # Missing =>
                IF ReadText(fs0[r].gitignore) # template
                THEN /\ Count(r, updated) = 1
                     /\ WrittenTemplate(fs[r])
                ELSE /\ Count(r, unchanged) = 1
                     /\ Count(r, updated) = 0
                     /\ fs[r] = fs0[r]

C2_Witness ==
    /\ ~dry_run
    /\ pc = "done"
    /\ \E r \in Completed :
          /\ fs0[r].gitignore # Missing
          /\ ReadText(fs0[r].gitignore) # template
          /\ fs[r] # fs0[r]
    /\ \E r \in Completed :
          /\ fs0[r].gitignore # Missing
          /\ fs0[r].gitignore # template
          /\ fs0[r].gitignore # template_file
          /\ ReadText(fs0[r].gitignore) = template

\* C3: dry run or not, every repository whose .gitignore already equals the
\* template and whose iteration has completed is in unchanged and nowhere else,
\* and its file has not been written: same content, no write_text call.
C3_EqualLeftAlone ==
    \A r \in Completed :
        (fs0[r].gitignore # Missing /\ ReadText(fs0[r].gitignore) = template) =>
            /\ Count(r, unchanged) = 1
            /\ Count(r, created) = 0
            /\ Count(r, updated) = 0
            /\ fs[r] = fs0[r]
            /\ writes[r] = 0

C3_Witness ==
    /\ pc = "done"
    /\ ~dry_run
    /\ \E r \in Completed : fs0[r].gitignore = template
    /\ \E r \in Completed : fs0[r].gitignore = Missing

\* The outcome a non-dry run computes for a .gitignore: by the contract of
\* the synchroniser, not by SyncRepo.
NonDryOutcome(gitignore) ==
    IF gitignore = Missing THEN "created"
    ELSE IF ReadText(gitignore) # template THEN "updated"
    ELSE "unchanged"

\* The bucket a repository is in.
Bucket(r) ==
    IF Count(r, created) > 0 THEN "created"
    ELSE IF Count(r, updated) > 0 THEN "updated"
    ELSE IF Count(r, unchanged) > 0 THEN "unchanged"
    ELSE "none"

\* C4: in a dry run the workspace stays as it was when the run started, no
\* write_text is called, and every repository whose iteration has completed is
\* in the bucket of the outcome _sync_repo computes with dry_run off from that
\* same workspace, which is the outcome the contract gives.
C4_DryRunFrame ==
    dry_run =>
        /\ fs = fs0
        /\ writes = NoWrites
        /\ \A r \in Completed :
              LET wet == SyncRepo(fs0[r].gitignore, template, FALSE).outcome
              IN  /\ Bucket(r) = (IF wet = "None" THEN "unchanged" ELSE wet)
                  /\ Bucket(r) = NonDryOutcome(fs0[r].gitignore)
                  /\ Count(r, created \o updated \o unchanged) = 1

C4_Witness ==
    /\ dry_run
    /\ pc = "done"
    /\ created # <<>>
    /\ updated # <<>>
    /\ unchanged # <<>>

\* C5: when a run completes, every discovered repository occurs exactly once in
\* the three lists of the SyncResult together, and the lists hold nothing else.
C5_BucketsPartition ==
    pc = "done" =>
        /\ result # NoResult
        /\ LET all == result.created \o result.updated \o result.unchanged
           IN  /\ \A r \in Range(repos) : Count(r, all) = 1
               /\ Range(all) \subseteq Range(repos)

C5_Witness ==
    /\ pc = "done"
    /\ created # <<>>
    /\ updated # <<>>
    /\ unchanged # <<>>

\* The set the discoverer is to return, by the contract.
ExpectedRepos(f) ==
    { p \in {Root} \cup Children :
        /\ f[p].kind = "dir"
        /\ f[p].git \in {"file", "dir"}
        /\ p # Root => p[1][1] # "." }

\* C6: the discovered list is strictly ascending (sorted, no duplicates) and
\* holds exactly the root if it has a .git entry and the visible child
\* directories that have one: nothing hidden, nothing nested, no plain file.
C6_DiscoveryExact ==
    pc \in {"syncing", "done"} =>
        /\ Range(repos) = ExpectedRepos(fs0)
        /\ \A i, j \in 1..Len(repos) : i < j => PathLess(repos[i], repos[j])
        /\ <<HiddenName>> \notin Range(repos)
        /\ Nested \notin Range(repos)

C6_Witness ==
    /\ pc = "syncing"
    /\ Len(repos) = NumVisible + 1
    /\ GitExists(fs0[<<HiddenName>>])
    /\ GitExists(fs0[Nested])

\* C7 as stated: whenever the template is not a readable file, main ends with
\* the not-found error and nothing was discovered or written.
C7_AlwaysNotFound ==
    (template_file \in {Missing, Unreadable} /\ pc # "start") =>
        /\ pc = "raised"
        /\ error = TemplateNotFound
        /\ repos = <<>>
        /\ fs = fs0
        /\ writes = NoWrites

\* C7 amended: when the template file is missing main ends with the not-found
\* error that names the path, when it exists and cannot be read main ends with
\* the error read_text raised; either way nothing was discovered or written.
C7_TemplateErrorFirst ==
    (template_file \in {Missing, Unreadable} /\ pc # "start") =>
        /\ pc = "raised"
        /\ error = (IF template_file = Missing THEN TemplateNotFound ELSE TemplateOSError)
        /\ repos = <<>>
        /\ result = NoResult
        /\ fs = fs0
        /\ writes = NoWrites

C7_Witness ==
    /\ template_file = Missing
    /\ pc = "raised"
    /\ \E p \in Paths : GitExists(fs[p]) /\ fs[p].gitignore = Missing

\* C8: once a write has failed the run has ended with that error: the list was
\* in sorted order, every repository before the failing one holds the
\* template, every repository after it is as it was when the run started, and
\* no SyncResult was returned and no summary printed.
C8_WriteFailureHalts ==
    error = WriteOSError =>
        /\ pc = "raised"
        /\ \A i, j \in 1..Len(repos) : i < j => PathLess(repos[i], repos[j])
        /\ \A r \in Completed : HoldsTemplate(fs[r])
        /\ \A r \in Ahead : fs[r] = fs0[r] /\ writes[r] = 0
        /\ result = NoResult
        /\ ~logged

C8_Witness ==
    /\ error = WriteOSError
    /\ \E r \in Completed : fs[r] # fs0[r]
    /\ \E r \in Ahead : ~HoldsTemplate(fs[r])

\* C9: write_text is called only outside dry-run, only on the .gitignore of a
\* discovered repository (a visible directory at most one level down that has
\* a .git entry) whose outcome is created or updated, and at most once; every
\* other entry of the workspace is as it was when the run started.
C9_WritesConfined ==
    \A p \in Paths :
        /\ writes[p] <= 1
        /\ writes[p] > 0 =>
              /\ ~dry_run
              /\ p \in Range(repos)
              /\ p \in ExpectedRepos(fs0)
              /\ NonDryOutcome(fs0[p].gitignore) \in {"created", "updated"}
        /\ writes[p] = 0 => fs[p] = fs0[p]
        /\ fs[p].kind = fs0[p].kind
        /\ fs[p].git = fs0[p].git

C9_Witness ==
    /\ pc = "done"
    /\ \E p \in Paths : writes[p] = 1
    /\ \E p \in Children : fs[p].kind = "dir" /\ ~GitExists(fs[p]) /\ fs[p].gitignore # Missing
    /\ GitExists(fs[<<HiddenName>>])
    /\ GitExists(fs[Nested])

\* C10: when a non-dry run completes every discovered repository holds the
\* template, and in the run that follows it no repository is created or
\* updated, nothing is written, and at its end every discovered repository is
\* in unchanged.
C10_Idempotent ==
    /\ (pc = "done" /\ ~dry_run) => \A r \in Range(repos) : HoldsTemplate(fs[r])
    /\ prev_synced =>
          /\ created = <<>>
          /\ updated = <<>>
          /\ writes = NoWrites
          /\ fs = fs0
          /\ pc \notin {"raised"}
          /\ pc = "done" => \A r \in Range(repos) : Count(r, result.unchanged) = 1

C10_Witness ==
    /\ prev_synced
    /\ ~dry_run
    /\ pc = "done"
    /\ Len(unchanged) = NumVisible + 1

=============================================================================
